---- MODULE Spec2Model ----
(***************************************************************************)
(* openCEM multi-year simulation (cemo/multi.py): construction of the      *)
(* SolveTemplate scenario object from its configuration file, and the      *)
(* sequential per-year solve loop with its carry-forward artifacts.        *)
(*                                                                         *)
(* Numbers of the configuration file (policy values, discount rate) are    *)
(* integers.  Capacities of the clustered solution are fixed point, in     *)
(* units of 1e-7.                                                          *)
(***************************************************************************)
EXTENDS Integers, Sequences, FiniteSets, TLC

VARIABLES
    cfgfile,   \* the scenario configuration file __init__ reads
    obj,       \* the SolveTemplate object, NoObj before and without one
    raised,    \* the exception that ended __init__ or solve()
    pc,        \* the statement of __init__ / solve() that runs next
    pos,       \* position in self.Years of the year solve() is at
    store,     \* the files under tmpdir, and the final report
    inst,      \* the instance solve() holds in inst
    ccap,      \* the clustering objects solve() holds in clus and ccap
    log        \* the statements of solve() executed so far, in order

vars == <<cfgfile, obj, raised, pc, pos, store, inst, ccap, log>>

(***************************************************************************)
(* Bounds and input sets                                                   *)
(***************************************************************************)
\* longest Years list, and longest policy series, of a configuration file
MaxYears == 2

\* multi.py:182  first year with historical data
MinYear == 2018
\* multi.py:180  last full year of data
MaxYear == 2050

YearVals == {MinYear - 1, MinYear, MaxYear, MaxYear + 1}
Vals == {-1, 0, 1, 2}

SeqsUpTo(S, n) == UNION {[1..k -> S] : k \in 0..n}

YearLists == SeqsUpTo(YearVals, MaxYears)
Series == SeqsUpTo(Vals, MaxYears)
Zeros == {[i \in 1..k |-> 0] : k \in 0..MaxYears}

Absent == [has |-> FALSE, val |-> <<>>]
Present(v) == [has |-> TRUE, val |-> v]

\* region_ret_ratio: the per-region series, in the order of the mapping
RegionMaps ==
    {<<>>} \cup {<<s>> : s \in Series}
           \cup {<<z, s>> : z \in Zeros, s \in Series}
           \cup {<<s, z>> : s \in Series, z \in Zeros}

ListPolicies == {"cost_emit", "nem_ret_ratio", "nem_ret_gwh", "emitlimit",
                 "nem_disp_ratio", "nem_re_disp_ratio"}
RatioPolicies == {"nem_ret_ratio", "nem_disp_ratio", "nem_re_disp_ratio"}

FileStates == {"absent", "missing", "file"}

\* rows of an exogenous capacity table: the year and the category of the row,
\* and whether its zone and technology are among the configured ones
ExoRows ==
    {[year |-> MinYear - 1, name |-> "gen_cap_exo", known |-> TRUE],
     [year |-> MinYear, name |-> "gen_cap_exo", known |-> TRUE],
     [year |-> MinYear + 1, name |-> "gen_cap_exo", known |-> FALSE],
     [year |-> MaxYear, name |-> "stor_cap_exo", known |-> TRUE],
     [year |-> MaxYear + 1, name |-> "ret_gen_cap_exo", known |-> TRUE]}

\* the tables: any selection of the rows
ExoTables == SUBSET ExoRows

\* paths of a configuration file, character by character
CfgPath == <<"a", ".", "c", "f", "g">>
Paths == {CfgPath,
          <<".", "/", "a", ".", "c", "f", "g">>,
          <<"a", ".", "v", ".", "c", "f", "g">>}

\* path is the argument of SolveTemplate(cfgfile); capacity holds the rows of
\* the table the exogenous_capacity path names
BaseFile(y, cl) ==
    [exists |-> TRUE, path |-> CfgPath, Years |-> y,
     nem_ret_ratio |-> Absent, nem_ret_gwh |-> Absent,
     region_ret_ratio |-> Absent, emitlimit |-> Absent,
     nem_disp_ratio |-> Absent, nem_re_disp_ratio |-> Absent,
     discountrate |-> 0, cost_emit |-> Absent,
     Template |-> TRUE, custom_costs |-> "absent",
     exogenous_capacity |-> "absent", capacity |-> {}, cluster |-> cl]

\* a configuration that names an exogenous capacity table
ExoFile(y, t) ==
    [BaseFile(y, FALSE) EXCEPT !.exogenous_capacity = "file", !.capacity = t]

\* The configuration files of the construction runs: one optional policy
\* series present (any length, any values), two present (any lengths), or
\* any discount rate and any state of the files the configuration names.
InCfgFiles(f, cl) ==
    \/ \E y \in YearLists, p \in ListPolicies, s \in Series :
          f = [BaseFile(y, cl) EXCEPT ![p] = Present(s)]
    \/ \E y \in YearLists, m \in RegionMaps :
          f = [BaseFile(y, cl) EXCEPT !.region_ret_ratio = Present(m)]
    \/ \E y \in YearLists, p \in ListPolicies, q \in ListPolicies,
          s \in Zeros, t \in Zeros :
          f = [BaseFile(y, cl) EXCEPT ![p] = Present(s), ![q] = Present(t)]
    \/ \E y \in YearLists, d \in Vals, t \in BOOLEAN,
          c \in FileStates, e \in FileStates :
          f = [BaseFile(y, cl) EXCEPT !.discountrate = d, !.Template = t,
                                      !.custom_costs = c, !.exogenous_capacity = e]
    \/ f = [BaseFile(<<>>, cl) EXCEPT !.exists = FALSE]

(***************************************************************************)
(* Helpers on sequences                                                    *)
(***************************************************************************)
Range(s) == {s[i] : i \in 1..Len(s)}

max(s) == CHOOSE m \in Range(s) : \A x \in Range(s) : x <= m
min(s) == CHOOSE m \in Range(s) : \A x \in Range(s) : m <= x

RECURSIVE Insert(_, _)
Insert(x, s) ==
    IF s = <<>> THEN <<x>>
    ELSE IF x < Head(s) THEN <<x>> \o s
    ELSE <<Head(s)>> \o Insert(x, Tail(s))

\* sorted(y): stable ascending sort, duplicates kept
RECURSIVE sorted(_)
sorted(s) ==
    IF s = <<>> THEN <<>>
    ELSE Insert(s[Len(s)], sorted(SubSeq(s, 1, Len(s) - 1)))

\* list.index(year): position of the first occurrence (1-based here)
index(s, x) == CHOOSE i \in 1..Len(s) : s[i] = x /\ \A j \in 1..(i - 1) : s[j] # x

(***************************************************************************)
(* Property setters of SolveTemplate: "ok", or the exception they raise    *)
(***************************************************************************)
\* variant: the lower limit is not checked
Years_setter_nomin(y) ==
    IF y = <<>> THEN "ValueError"
    ELSE IF max(y) > MaxYear THEN "ValueError"
    ELSE "ok"

Years_setter(y) ==
    IF y = <<>> THEN "ValueError"             \* max() of an empty list
    ELSE IF max(y) > MaxYear THEN "ValueError"
    ELSE IF min(y) < MinYear THEN "Exception"
    ELSE "ok"

\* variant: only the lower limit is checked
discountrate_setter_noupper(data) ==
    IF data < 0 THEN "ValueError" ELSE "ok"

discountrate_setter(data) ==
    IF data < 0 \/ data > 1 THEN "ValueError" ELSE "ok"

cost_emit_setter(data, Years) ==
    IF data.has
    THEN IF Len(data.val) # Len(Years) THEN "ValueError"
         ELSE IF \E i \in 1..Len(data.val) : data.val[i] < 0 THEN "ValueError"
         ELSE "ok"
    ELSE "ok"

nem_ret_ratio_setter(data, Years) ==
    IF data.has
    THEN IF Len(data.val) # Len(Years) THEN "ValueError"
         ELSE IF (\E i \in 1..Len(data.val) : data.val[i] < 0)
                 \/ (\E i \in 1..Len(data.val) : data.val[i] > 1) THEN "ValueError"
         ELSE "ok"
    ELSE "ok"

nem_ret_gwh_setter(data, Years) ==
    IF data.has
    THEN IF Len(data.val) # Len(Years) THEN "ValueError"
         ELSE IF \E i \in 1..Len(data.val) : data.val[i] < 0 THEN "ValueError"
         ELSE "ok"
    ELSE "ok"

\* the loop over the regions of the mapping raises at the first bad series
RECURSIVE region_loop(_, _)
region_loop(m, Years) ==
    IF m = <<>> THEN "ok"
    ELSE IF Len(Head(m)) # Len(Years) THEN "ValueError"
    ELSE IF (\E i \in 1..Len(Head(m)) : Head(m)[i] < 0)
            \/ (\E i \in 1..Len(Head(m)) : Head(m)[i] > 1) THEN "ValueError"
    ELSE region_loop(Tail(m), Years)

region_ret_ratio_setter(data, Years) ==
    IF data.has THEN region_loop(data.val, Years) ELSE "ok"

emitlimit_setter(data, Years) ==
    IF data.has
    THEN IF Len(data.val) # Len(Years) THEN "ValueError"
         ELSE IF \E i \in 1..Len(data.val) : data.val[i] < 0 THEN "ValueError"
         ELSE "ok"
    ELSE "ok"

nem_disp_ratio_setter(data, Years) ==
    IF data.has
    THEN IF Len(data.val) # Len(Years) THEN "ValueError"
         ELSE IF (\E i \in 1..Len(data.val) : data.val[i] < 0)
                 \/ (\E i \in 1..Len(data.val) : data.val[i] > 1) THEN "ValueError"
         ELSE "ok"
    ELSE "ok"

\* variant: the length is not compared with the Years list
nem_re_disp_ratio_setter_nolen(data, Years) ==
    IF data.has
    THEN IF (\E i \in 1..Len(data.val) : data.val[i] < 0)
            \/ (\E i \in 1..Len(data.val) : data.val[i] > 1) THEN "ValueError"
         ELSE "ok"
    ELSE "ok"

nem_re_disp_ratio_setter(data, Years) ==
    IF data.has
    THEN IF Len(data.val) # Len(Years) THEN "ValueError"
         ELSE IF (\E i \in 1..Len(data.val) : data.val[i] < 0)
                 \/ (\E i \in 1..Len(data.val) : data.val[i] > 1) THEN "ValueError"
         ELSE "ok"
    ELSE "ok"

Template_setter(a) == IF ~a THEN "OSError" ELSE "ok"

custom_costs_setter(a) == IF a # "absent" /\ a # "file" THEN "OSError" ELSE "ok"

\* variant: the path is stored without looking for the file
exogenous_capacity_setter_unchecked(a) == "ok"

exogenous_capacity_setter(a) == IF a # "absent" /\ a # "file" THEN "OSError" ELSE "ok"

(***************************************************************************)
(* SolveTemplate.__init__                                                  *)
(***************************************************************************)
\* the first exception of a sequence of statement outcomes, "ok" if none
RECURSIVE FirstError(_)
FirstError(outcomes) ==
    IF outcomes = <<>> THEN "ok"
    ELSE IF Head(outcomes) # "ok" THEN Head(outcomes)
    ELSE FirstError(Tail(outcomes))

\* the statements of __init__ in program order; the setters after Years read
\* self.Years, the sorted list
init_outcome(f) ==
    IF ~f.exists THEN "FileNotFoundError"
    ELSE IF Years_setter(f.Years) # "ok" THEN Years_setter(f.Years)
    ELSE LET Years == sorted(f.Years) IN
         FirstError(<<nem_ret_ratio_setter(f.nem_ret_ratio, Years),
                      nem_ret_gwh_setter(f.nem_ret_gwh, Years),
                      region_ret_ratio_setter(f.region_ret_ratio, Years),
                      emitlimit_setter(f.emitlimit, Years),
                      nem_disp_ratio_setter(f.nem_disp_ratio, Years),
                      nem_re_disp_ratio_setter(f.nem_re_disp_ratio, Years),
                      discountrate_setter(f.discountrate),
                      cost_emit_setter(f.cost_emit, Years),
                      Template_setter(f.Template),
                      custom_costs_setter(f.custom_costs),
                      exogenous_capacity_setter(f.exogenous_capacity)>>)

NoObj == [kind |-> "none"]

\* the value of the default argument tmpdir: the directory mkdtemp() made
\* when the def statement of __init__ ran, the same for every later call
DefaultTmpdir == "mkdtemp_at_def"

\* the object __init__ leaves behind when no statement raises
init_object(f) ==
    [kind |-> "SolveTemplate",
     cfgfile |-> f.path,
     tmpdir |-> DefaultTmpdir,
     Years |-> sorted(f.Years),
     nem_ret_ratio |-> f.nem_ret_ratio, nem_ret_gwh |-> f.nem_ret_gwh,
     region_ret_ratio |-> f.region_ret_ratio, emitlimit |-> f.emitlimit,
     nem_disp_ratio |-> f.nem_disp_ratio,
     nem_re_disp_ratio |-> f.nem_re_disp_ratio,
     model_options |-> [nem_ret_ratio |-> f.nem_ret_ratio.has,
                        nem_ret_gwh |-> f.nem_ret_gwh.has,
                        region_ret_ratio |-> f.region_ret_ratio.has,
                        emitlimit |-> f.emitlimit.has,
                        nem_disp_ratio |-> f.nem_disp_ratio.has,
                        nem_re_disp_ratio |-> f.nem_re_disp_ratio.has],
     discountrate |-> f.discountrate, cost_emit |-> f.cost_emit,
     Template |-> f.Template, custom_costs |-> f.custom_costs,
     exogenous_capacity |-> f.exogenous_capacity, cluster |-> f.cluster]

(***************************************************************************)
(* Template generation                                                     *)
(***************************************************************************)
\* the [carryforwardcap] clause: initial capacity from the database for the
\* year at index 0, from the previous year's gen_cap_op file otherwise
carryforwardcap(Years, year) ==
    IF index(Years, year) # 1
    THEN [clause |-> "load", key |-> Years[index(Years, year) - 1]]
    ELSE [clause |-> "bootstrap", key |-> 0]

\* the cost_cap_carry_forward clause, empty for the year at index 0
carry_forward_cap_costs(Years, year) ==
    IF index(Years, year) # 1
    THEN [clause |-> "load", key |-> Years[index(Years, year) - 1]]
    ELSE [clause |-> "none", key |-> 0]

\* year substituted for the WWWW token
\* multi.py:566
PreHorizonYear == 2017

\* variant: the previous year is taken at the position solve() has reached
template_prevyear_at_pos(Years, year) ==
    IF pos = 1 THEN PreHorizonYear ELSE Years[pos - 1]

template_prevyear(Years, year) ==
    IF index(Years, year) = 1 THEN PreHorizonYear
    ELSE Years[index(Years, year) - 1]

\* truth value of an optional setting in "if self.<setting>:": None, an
\* empty list and an empty mapping are all false
truthy(p) == p.has /\ p.val # <<>>

\* a "param <name> := <value>;" block: the element of the series at the
\* index of the first occurrence of year, or nothing
policy_param(p, Years, year) ==
    IF truthy(p) THEN <<p.val[index(Years, year)]>> ELSE <<>>

\* the "param region_ret_ratio := ..." block: for every region of the
\* mapping, in its order, the element of the region's series
region_ret_ratio_param(p, Years, year) ==
    IF truthy(p)
    THEN [r \in 1..Len(p.val) |-> p.val[r][index(Years, year)]]
    ELSE <<>>

\* the categories of the exogenous capacity table that are emitted
ExoKeywords == {"gen_cap_exo", "stor_cap_exo", "hyb_cap_exo", "ret_gen_cap_exo"}

\* self.Years[self.Years.index(year) - 1]: index -1 is the last element
years_before(Years, year) ==
    IF index(Years, year) = 1 THEN Years[Len(Years)]
    ELSE Years[index(Years, year) - 1]

\* the rows of the table emitted for year, by category; capacity is the
\* table read from the path in self.exogenous_capacity
produce_exogenous_capacity(o, capacity, year) ==
    IF o.exogenous_capacity # "absent"
    THEN [key \in ExoKeywords |->
            {r \in capacity : /\ r.year > years_before(o.Years, year)
                              /\ r.year <= year
                              /\ r.name = key
                              /\ r.known}]
    ELSE [key \in ExoKeywords |-> {}]

\* contents of Sim<year>.dat
generateyeartemplate(o, capacity, year) ==
    [kind |-> "template", year |-> year,
     prevyear |-> template_prevyear(o.Years, year),
     carryforwardcap |-> carryforwardcap(o.Years, year),
     exogenous_capacity |-> produce_exogenous_capacity(o, capacity, year),
     discountrate |-> o.discountrate,
     cost_emit |-> policy_param(o.cost_emit, o.Years, year),
     carry_fwd_cap |-> carry_forward_cap_costs(o.Years, year),
     nem_ret_ratio |-> policy_param(o.nem_ret_ratio, o.Years, year),
     nem_ret_gwh |-> policy_param(o.nem_ret_gwh, o.Years, year),
     region_ret_ratio |-> region_ret_ratio_param(o.region_ret_ratio, o.Years, year),
     emitlimit |-> policy_param(o.emitlimit, o.Years, year),
     nem_disp_ratio |-> policy_param(o.nem_disp_ratio, o.Years, year),
     nem_re_disp_ratio |-> policy_param(o.nem_re_disp_ratio, o.Years, year)]

(***************************************************************************)
(* Clustered capacities                                                    *)
(***************************************************************************)
\* multi.py:52  1e-6 in units of 1e-7
Tol == 10
\* multi.py:54  two decimal places: 1e-2 in units of 1e-7
Quantum == 100000

\* round(cap, 2): to the nearest multiple of 0.01, ties to even
round2(cap) ==
    LET a == IF cap < 0 THEN -cap ELSE cap
        q == a \div Quantum
        r == a % Quantum
        up == (2 * r > Quantum) \/ (2 * r = Quantum /\ q % 2 = 1)
        m == (IF up THEN q + 1 ELSE q) * Quantum
    IN IF cap < 0 THEN -m ELSE m

\* variant: values that are not snapped go up to the next hundredth
roundup_ceil(cap) ==
    IF cap > -Tol /\ cap < 0 THEN 0
    ELSE IF cap % Quantum = 0 THEN cap
    ELSE (cap \div Quantum + 1) * Quantum

roundup(cap) ==
    IF cap > -Tol /\ cap < 0 THEN 0 ELSE round2(cap)

\* the capacity variables of an instance with one zone and one technology
\* of each kind, in the order setinstancecapacity writes them
CapOrder == <<"gen_cap_new", "stor_cap_new", "hyb_cap_new", "gen_cap_ret">>
CapNames == Range(CapOrder)

\* -0.02, -1e-5, -5e-7 and 1.2345
CapVals == {-200000, -100, -5, 12345000}

\* assignment to a capacity variable: its domain is the non-negative reals
var_accepts(value) == value >= 0

\* variant: the values are written and the variables are left free
setinstancecapacity_unfixed(instance, clustercap) ==
    IF \E n \in CapNames : ~var_accepts(roundup(clustercap.data[n]))
    THEN [raised |-> TRUE, instance |-> instance]
    ELSE [raised |-> FALSE,
          instance |-> [instance EXCEPT
                          !.caps = [n \in CapNames |-> roundup(clustercap.data[n])]]]

\* [raised, instance]: the values are written in order, and the first one the
\* variable refuses raises; after the last one all four variables are fixed
setinstancecapacity(instance, clustercap) ==
    IF \E n \in CapNames : ~var_accepts(roundup(clustercap.data[n]))
    THEN [raised |-> TRUE, instance |-> instance]
    ELSE [raised |-> FALSE,
          instance |-> [instance EXCEPT
                          !.caps = [n \in CapNames |-> roundup(clustercap.data[n])],
                          !.fixed = CapNames]]

(***************************************************************************)
(* State                                                                   *)
(***************************************************************************)
NoFile == [kind |-> "none"]
NoInst == [kind |-> "none"]
NoCap == [kind |-> "none"]
\* the exception that ended construction or solve(), and the position of the
\* year whose statement raised it
NoRaise == [step |-> "none", pos |-> 0]

Kinds == {"Sim", "gen_cap_op", "json"}
FinalKey == <<"final", 0>>
Keys == (Kinds \X YearVals) \cup {FinalKey}

EmptyStore == [k \in Keys |-> NoFile]

InitRest ==
    /\ obj = NoObj
    /\ raised = NoRaise
    /\ pc = "new"
    /\ pos = 0
    /\ store = EmptyStore
    /\ inst = NoInst
    /\ ccap = NoCap
    /\ log = <<>>

\* SolveTemplate(cfgfile): an exception leaves the caller without an object
Construct ==
    /\ pc = "new"
    /\ IF init_outcome(cfgfile) = "ok"
       THEN /\ obj' = init_object(cfgfile)
            /\ raised' = NoRaise
            /\ pc' = "constructed"
       ELSE /\ obj' = NoObj
            /\ raised' = [step |-> init_outcome(cfgfile), pos |-> 0]
            /\ pc' = "ctor_failed"
    /\ UNCHANGED <<cfgfile, pos, store, inst, ccap, log>>

(***************************************************************************)
(* SolveTemplate.solve                                                     *)
(***************************************************************************)
Event(s, k, r) == [step |-> s, pos |-> k, res |-> r]

y == obj.Years[pos]

\* variant: the exception of a year is swallowed and the loop goes on
after_exception_skip == "end_year"

\* solve() has no exception handler: an exception of any statement leaves
\* the loop and the method
after_exception == "aborted"

Raise(s) ==
    /\ pc' = after_exception
    /\ raised' = [step |-> s, pos |-> pos]

\* termination conditions the solver reports without raising
SolverStatuses == {"optimal", "infeasible", "unbounded"}

\* for y in self.Years
StartSolve ==
    /\ pc = "constructed"
    /\ pc' = "template"
    /\ pos' = 1
    /\ UNCHANGED <<cfgfile, obj, raised, store, inst, ccap, log>>

\* year_template = self.generateyeartemplate(y)
GenerateYearTemplate ==
    /\ pc = "template"
    /\ store' = [store EXCEPT ![<<"Sim", y>>] =
                    generateyeartemplate(obj, cfgfile.capacity, y)]
    /\ log' = Append(log, Event("template", pos, "ok"))
    /\ pc' = "create_model"
    /\ UNCHANGED <<cfgfile, obj, raised, pos, inst, ccap>>

\* model = create_model(y, ...)
CreateModel ==
    /\ pc = "create_model"
    /\ log' = Append(log, Event("create_model", pos, "ok"))
    /\ \/ pc' = "create_instance" /\ UNCHANGED raised
       \/ Raise("create_model")
    /\ UNCHANGED <<cfgfile, obj, pos, store, inst, ccap>>

\* inst = model.create_instance(year_template)
CreateInstance ==
    /\ pc = "create_instance"
    /\ log' = Append(log, Event("create_instance", pos, "ok"))
    /\ \/ /\ inst' = [kind |-> "instance", pos |-> pos,
                      options |-> obj.model_options,
                      template |-> store[<<"Sim", y>>],
                      caps |-> [n \in CapNames |-> 0], fixed |-> {},
                      status |-> "unsolved"]
          /\ pc' = IF obj.cluster THEN "run_cluster" ELSE "solve"
          /\ UNCHANGED raised
       \/ Raise("create_instance") /\ UNCHANGED inst
    /\ UNCHANGED <<cfgfile, obj, pos, store, ccap>>

\* the positions of the instances that the clustering objects of a year (clus
\* and ccap, which stay bound until the next year assigns them again) keep a
\* reference to: the decomposer takes the instance and the number of
\* periods and gives back a capacity solution, which holds values only
cluster_refs(instance) == {}

\* clus = InstanceCluster(inst, ...); ccap = ClusterRun(clus, ...).run_cluster()
RunCluster ==
    /\ pc = "run_cluster"
    /\ log' = Append(log, Event("run_cluster", pos, "ok"))
    /\ \/ \E data \in [CapNames -> CapVals] :
             /\ ccap' = [kind |-> "clustercap", pos |-> pos, data |-> data,
                         refs |-> cluster_refs(inst)]
             /\ pc' = "setinstancecapacity"
             /\ UNCHANGED raised
       \/ Raise("run_cluster") /\ UNCHANGED ccap
    /\ UNCHANGED <<cfgfile, obj, pos, store, inst>>

\* inst = setinstancecapacity(inst, ccap)
SetInstanceCapacity ==
    /\ pc = "setinstancecapacity"
    /\ log' = Append(log, Event("setinstancecapacity", pos, "ok"))
    /\ IF setinstancecapacity(inst, ccap).raised
       THEN Raise("setinstancecapacity") /\ UNCHANGED inst
       ELSE /\ inst' = setinstancecapacity(inst, ccap).instance
            /\ pc' = "solve"
            /\ UNCHANGED raised
    /\ UNCHANGED <<cfgfile, obj, pos, store, ccap>>

\* opt.solve(inst, ...): the results object it returns is dropped
FullSolve ==
    /\ pc = "solve"
    /\ \/ \E s \in SolverStatuses :
             /\ inst' = [inst EXCEPT !.status = s]
             /\ log' = Append(log, Event("solve", pos, s))
             /\ pc' = "carry_forward"
             /\ UNCHANGED raised
       \/ /\ log' = Append(log, Event("solve", pos, "raise"))
          /\ Raise("solve")
          /\ UNCHANGED inst
    /\ UNCHANGED <<cfgfile, obj, pos, store, ccap>>

\* variant: the operating capacity is written for every year
carry_forward_due_always(Years, year) == TRUE

\* the operating capacity is written for every year that differs from the
\* last element of Years
carry_forward_due(Years, year) == year # Years[Len(Years)]

\* value() of an expression over the variables of an instance: certain to
\* succeed only when the solver loaded an optimal solution
MarshalOutcomes(instance) ==
    IF instance.status = "optimal" THEN {"ok"} ELSE {"ok", "raise"}

\* opcap = json_carry_forward_cap(inst); if y != self.Years[-1]: json.dump(...)
CarryForward ==
    /\ pc = "carry_forward"
    /\ \E m \in MarshalOutcomes(inst) :
          IF m = "raise"
          THEN /\ Raise("json_carry_forward_cap")
               /\ UNCHANGED <<store, log>>
          ELSE /\ IF carry_forward_due(obj.Years, y)
                  THEN /\ store' = [store EXCEPT ![<<"gen_cap_op", y>>] =
                                      [kind |-> "carry", year |-> y, pos |-> pos]]
                       /\ log' = Append(log, Event("carry_forward", pos, "ok"))
                  ELSE UNCHANGED <<store, log>>
               /\ pc' = "result"
               /\ UNCHANGED raised
    /\ UNCHANGED <<cfgfile, obj, pos, inst, ccap>>

\* out = jsonify(inst); json.dump(out, jo)
PersistResult ==
    /\ pc = "result"
    /\ \E m \in MarshalOutcomes(inst) :
          IF m = "raise"
          THEN /\ Raise("jsonify")
               /\ UNCHANGED <<store, log>>
          ELSE /\ store' = [store EXCEPT ![<<"json", y>>] =
                              [kind |-> "result", year |-> y, pos |-> pos]]
               /\ log' = Append(log, Event("result", pos, "ok"))
               /\ pc' = "end_year"
               /\ UNCHANGED raised
    /\ UNCHANGED <<cfgfile, obj, pos, inst, ccap>>

\* variant: the instance stays bound to inst when the year ends
EndYear_keep_inst ==
    /\ pc = "end_year"
    /\ IF pos < Len(obj.Years)
       THEN pos' = pos + 1 /\ pc' = "template"
       ELSE pos' = pos /\ pc' = "merge"
    /\ UNCHANGED <<cfgfile, obj, raised, store, inst, ccap, log>>

\* variant: the loop is left for the merge after the first year
EndYear_then_merge ==
    /\ pc = "end_year"
    /\ inst' = NoInst
    /\ pos' = pos
    /\ pc' = "merge"
    /\ UNCHANGED <<cfgfile, obj, raised, store, ccap, log>>

\* printstats(inst); del inst; next y, or the end of the loop
EndYear ==
    /\ pc = "end_year"
    /\ inst' = NoInst
    /\ IF pos < Len(obj.Years)
       THEN pos' = pos + 1 /\ pc' = "template"
       ELSE pos' = pos /\ pc' = "merge"
    /\ UNCHANGED <<cfgfile, obj, raised, store, ccap, log>>

\* the "meta" entry of the final report (of its fields, the Years list)
generate_metadata(o) == [Years |-> o.Years]

\* path.split(".")[0]: the characters before the first dot
RECURSIVE split_head(_)
split_head(path) ==
    IF path = <<>> \/ Head(path) = "." THEN <<>>
    ELSE <<Head(path)>> \o split_head(Tail(path))

\* name of the file the final report is written to
final_report_name(path) == split_head(path) \o <<".", "j", "s", "o", "n">>

\* variant: the entry of the last year is left out of the report
mergejsonyears_without_last(o, files) ==
    [raised |-> FALSE,
     report |-> [kind |-> "final", name |-> final_report_name(o.cfgfile),
                 meta |-> generate_metadata(o),
                 years |-> [yr \in Range(SubSeq(o.Years, 1, Len(o.Years) - 1)) |->
                              files[<<"json", yr>>]]]]

\* variant: a year whose file is missing is left out of the report
mergejsonyears_skip_missing(o, files) ==
    [raised |-> FALSE,
     report |-> [kind |-> "final", name |-> final_report_name(o.cfgfile),
                 meta |-> generate_metadata(o),
                 years |-> [yr \in {v \in Range(o.Years) :
                                      files[<<"json", v>>] # NoFile} |->
                              files[<<"json", yr>>]]]]

\* [raised, report]: the files of the years are opened in the order of Years
\* and the first missing one raises; the report is written after the last
\* one was read, with one entry per str(y)
mergejsonyears(o, files) ==
    IF \E i \in 1..Len(o.Years) : files[<<"json", o.Years[i]>>] = NoFile
    THEN [raised |-> TRUE, report |-> NoFile]
    ELSE [raised |-> FALSE,
          report |-> [kind |-> "final", name |-> final_report_name(o.cfgfile),
                      meta |-> generate_metadata(o),
                      years |-> [yr \in Range(o.Years) |-> files[<<"json", yr>>]]]]

\* self.mergejsonyears()
MergeJsonYears ==
    /\ pc = "merge"
    /\ IF mergejsonyears(obj, store).raised
       THEN Raise("mergejsonyears") /\ UNCHANGED <<store, log>>
       ELSE /\ store' = [store EXCEPT ![FinalKey] = mergejsonyears(obj, store).report]
            /\ log' = Append(log, Event("merge", pos, "ok"))
            /\ pc' = "done"
            /\ UNCHANGED raised
    /\ UNCHANGED <<cfgfile, obj, pos, inst, ccap>>

\* the scenarios that are run: every Years list with and without clustering,
\* and every configuration file of the construction runs
Init ==
    /\ \/ \E yl \in YearLists, cl \in BOOLEAN : cfgfile = BaseFile(yl, cl)
       \/ \E yl \in YearLists, t \in ExoTables : cfgfile = ExoFile(yl, t)
       \/ \E yl \in YearLists, p \in Paths :
             cfgfile = [BaseFile(yl, FALSE) EXCEPT !.path = p]
       \/ InCfgFiles(cfgfile, FALSE)
    /\ InitRest

Next ==
    \/ Construct
    \/ StartSolve
    \/ GenerateYearTemplate
    \/ CreateModel
    \/ CreateInstance
    \/ RunCluster
    \/ SetInstanceCapacity
    \/ FullSolve
    \/ CarryForward
    \/ PersistResult
    \/ EndYear
    \/ MergeJsonYears

Spec == Init /\ [][Next]_vars

(***************************************************************************)
(* mergejsonyears() called on a constructed object                         *)
(***************************************************************************)
\* a <year>.json file that an earlier run left in the working directory
LeftoverResult(yr) == [kind |-> "result", year |-> yr, pos |-> 0]

\* the working directory holds the results of any selection of years
InitMerge ==
    /\ \E yl \in YearLists : cfgfile = BaseFile(yl, FALSE)
    /\ \E S \in SUBSET YearVals :
          store = [k \in Keys |-> IF k[1] = "json" /\ k[2] \in S
                                  THEN LeftoverResult(k[2]) ELSE NoFile]
    /\ obj = NoObj
    /\ raised = NoRaise
    /\ pc = "new"
    /\ pos = 0
    /\ inst = NoInst
    /\ ccap = NoCap
    /\ log = <<>>

\* the caller invokes mergejsonyears() without solve()
CallMergeJsonYears ==
    /\ pc = "constructed"
    /\ pc' = "merge"
    /\ UNCHANGED <<cfgfile, obj, raised, pos, store, inst, ccap, log>>

NextMerge ==
    \/ Construct
    \/ CallMergeJsonYears
    \/ MergeJsonYears

SpecMerge == InitMerge /\ [][NextMerge]_vars

(***************************************************************************)
(* setinstancecapacity() applied to one capacity of every value of a grid  *)
(***************************************************************************)
\* largest capacity of the grid, in hundredths
MaxHundredths == 5

\* places between two hundredths: on one, next to one, around the middle
CapOffsets == {0, 1, Quantum \div 2 - 1, Quantum \div 2, Quantum \div 2 + 1,
               Quantum - 1}

\* the values around the tolerance, the places of every hundredth, and 1.2345
CapGrid ==
    (-(Tol + 2)..Tol)
       \cup {q * Quantum + d : q \in 0..MaxHundredths, d \in CapOffsets}
       \cup {12345000}

\* an instance of a one-year scenario and a clustered solution whose new
\* generation capacity is a value of the grid
InitCap ==
    /\ cfgfile = BaseFile(<<MinYear>>, TRUE)
    /\ obj = init_object(cfgfile)
    /\ raised = NoRaise
    /\ pc = "setinstancecapacity"
    /\ pos = 1
    /\ store = EmptyStore
    /\ inst = [kind |-> "instance", pos |-> 1,
               options |-> obj.model_options,
               template |-> generateyeartemplate(obj, cfgfile.capacity, MinYear),
               caps |-> [n \in CapNames |-> 0], fixed |-> {},
               status |-> "unsolved"]
    /\ \E v \in CapGrid :
          ccap = [kind |-> "clustercap", pos |-> 1,
                  data |-> [n \in CapNames |->
                              IF n = "gen_cap_new" THEN v ELSE 0],
                  refs |-> cluster_refs(inst)]
    /\ log = <<>>

NextCap == SetInstanceCapacity

SpecCap == InitCap /\ [][NextCap]_vars

(***************************************************************************)
(* Two scenario objects in one process, neither given a tmpdir             *)
(***************************************************************************)
\* the files of a directory as an object constructed later finds them: pos 0
\* marks a file that a run of an earlier object wrote
Leftover(files) ==
    [k \in Keys |->
       IF k = FinalKey \/ files[k] = NoFile THEN files[k]
       ELSE [kind |-> files[k].kind, year |-> files[k].year, pos |-> 0]]

\* the first object, of a scenario without clustering
InitTwo ==
    /\ \E yl \in YearLists : cfgfile = BaseFile(yl, FALSE)
    /\ InitRest

\* after solve() of the first object: SolveTemplate(cfgfile) of a second
\* configuration; store becomes the directory of the new object, and log the
\* statements run on it
ConstructSecond ==
    /\ pc = "done"
    /\ ~\E i \in 1..Len(log) : log[i].step = "second"
    /\ \E yl \in YearLists :
          /\ init_outcome(BaseFile(yl, FALSE)) = "ok"
          /\ cfgfile' = BaseFile(yl, FALSE)
          /\ obj' = init_object(BaseFile(yl, FALSE))
          /\ store' = IF init_object(BaseFile(yl, FALSE)).tmpdir = obj.tmpdir
                      THEN Leftover(store) ELSE EmptyStore
    /\ log' = <<Event("second", 0, "ok")>>
    /\ pc' = "constructed"
    /\ pos' = 0
    /\ UNCHANGED <<raised, inst, ccap>>

NextTwo ==
    \/ Construct
    \/ StartSolve
    \/ GenerateYearTemplate
    \/ CreateModel
    \/ CreateInstance
    \/ FullSolve
    \/ CarryForward
    \/ PersistResult
    \/ EndYear
    \/ MergeJsonYears
    \/ ConstructSecond
    \/ CallMergeJsonYears

SpecTwo == InitTwo /\ [][NextTwo]_vars

(***************************************************************************)
(* Properties                                                              *)
(***************************************************************************)
InRange(yr) == yr >= MinYear /\ yr <= MaxYear

Persists == {"carry_forward", "result"}

\* the log holds the event <<s, k>>
Happened(s, k) == \E i \in 1..Len(log) : log[i].step = s /\ log[i].pos = k

\* the event <<s, k>> is in the log before its entry j
HappenedBefore(s, k, j) ==
    \E i \in 1..(j - 1) : log[i].step = s /\ log[i].pos = k

\* C1: the years are processed in ascending order of the sorted Years list,
\* and no step of the year at position k+1 starts before the CarryForwardState
\* and the YearResult of the year at position k have both been persisted.
C1_NextYearAfterPersisted ==
    /\ \A i, j \in 1..Len(log) : i < j => log[i].pos <= log[j].pos
    /\ \A j \in 1..Len(log) :
          log[j].pos > 1 =>
             /\ obj.Years[log[j].pos - 1] <= obj.Years[log[j].pos]
             /\ HappenedBefore("carry_forward", log[j].pos - 1, j)
             /\ HappenedBefore("result", log[j].pos - 1, j)

\* C2: the template generated at every position k > 0 of the sorted Years
\* list loads the CarryForwardState keyed by Years[k-1], which this run has
\* already written; only the template at position 0 holds the bootstrap
\* clause.
C2_TemplateLoadsPreviousYear ==
    pc = "create_model" =>
       LET t == store[<<"Sim", y>>] IN
       IF pos = 1
       THEN t.carryforwardcap.clause = "bootstrap"
       ELSE /\ t.carryforwardcap = [clause |-> "load", key |-> obj.Years[pos - 1]]
            /\ t.carry_fwd_cap = [clause |-> "load", key |-> obj.Years[pos - 1]]
            /\ store[<<"gen_cap_op", obj.Years[pos - 1]>>].kind = "carry"
            /\ Happened("carry_forward", pos - 1)

\* C3: after a complete run of solve() a CarryForwardState is on disk for
\* every year of Years except the last year of the sorted list, and none for
\* the last year (nor for any other year).
C3_CarryForwardAllButLast ==
    pc = "done" =>
       \A yr \in YearVals :
          /\ (store[<<"gen_cap_op", yr>>] # NoFile)
                <=> (yr \in Range(obj.Years) /\ yr # obj.Years[Len(obj.Years)])
          /\ (\E k \in 1..Len(obj.Years) :
                 obj.Years[k] = yr /\ Happened("carry_forward", k))
                <=> (yr \in Range(obj.Years) /\ yr # obj.Years[Len(obj.Years)])

C3_Witness ==
    /\ pc = "done"
    /\ Len(obj.Years) >= 2
    /\ store[<<"gen_cap_op", obj.Years[1]>>].kind = "carry"
    /\ store[<<"gen_cap_op", obj.Years[Len(obj.Years)]>>] = NoFile

ExternalSteps == {"create_model", "create_instance", "run_cluster", "solve"}

\* C4: when the model builder, the clustering decomposer or the solver
\* raises at position k, solve() is over: the year at k persists nothing,
\* no step of a later year runs, no final report is written, no step is run
\* twice, nothing more can happen, and every artifact the earlier positions
\* wrote is on disk as they wrote it.
C4_FailureAborts ==
    raised.step \in ExternalSteps =>
       /\ pc = "aborted"
       /\ pos = raised.pos
       /\ ~ENABLED Next
       /\ \A i \in 1..Len(log) :
             /\ log[i].pos <= raised.pos
             /\ log[i].pos = raised.pos => log[i].step \notin Persists
             /\ log[i].step # "merge"
             /\ \A j \in 1..Len(log) :
                   (log[i].step = log[j].step /\ log[i].pos = log[j].pos) => i = j
       /\ store[FinalKey] = NoFile
       /\ \A k \in 1..(raised.pos - 1) :
             /\ store[<<"Sim", obj.Years[k]>>] =
                   generateyeartemplate(obj, cfgfile.capacity, obj.Years[k])
             /\ store[<<"json", obj.Years[k]>>].kind = "result"
             /\ store[<<"json", obj.Years[k]>>].pos < raised.pos
             /\ Happened("carry_forward", k) =>
                   /\ store[<<"gen_cap_op", obj.Years[k]>>].kind = "carry"
                   /\ store[<<"gen_cap_op", obj.Years[k]>>].pos < raised.pos

C4_Witness ==
    /\ pc = "aborted"
    /\ raised = [step |-> "solve", pos |-> 2]
    /\ store[<<"json", obj.Years[1]>>].kind = "result"
    /\ store[<<"gen_cap_op", obj.Years[1]>>].kind = "carry"

\* C5: when the solver returns an infeasible or unbounded status for the
\* full solve of a year, neither the CarryForwardState nor the YearResult of
\* that year is written and no later year is processed.
C5_NonOptimalIsFatal ==
    \A i \in 1..Len(log) :
       (log[i].step = "solve" /\ log[i].res \in {"infeasible", "unbounded"}) =>
          \A j \in 1..Len(log) :
             /\ log[j].pos <= log[i].pos
             /\ log[j].pos = log[i].pos => log[j].step \notin Persists

\* C6: when the clustered solution of the year holds a capacity v <= -1e-6,
\* writing it raises: the run aborts in setinstancecapacity and the full
\* solve of the year is never invoked.
C6_NegativeCapacityAborts ==
    (/\ ccap # NoCap
     /\ ccap.pos = pos
     /\ \E n \in CapNames : ccap.data[n] <= -Tol) =>
       /\ ~Happened("solve", pos)
       /\ \/ pc = "setinstancecapacity"
          \/ pc = "aborted" /\ raised = [step |-> "setinstancecapacity", pos |-> pos]

\* what the configuration has to satisfy, field by field
SeriesFits(f, s) == Len(s) = Len(f.Years)
AllIn01(s) == \A i \in 1..Len(s) : s[i] >= 0 /\ s[i] <= 1
AllNonNeg(s) == \A i \in 1..Len(s) : s[i] >= 0

ValidConfig(f) ==
    /\ f.exists
    /\ f.Template
    /\ f.custom_costs # "missing"
    /\ f.exogenous_capacity # "missing"
    /\ Len(f.Years) > 0
    /\ \A i \in 1..Len(f.Years) : InRange(f.Years[i])
    /\ f.discountrate >= 0 /\ f.discountrate <= 1
    /\ \A p \in RatioPolicies :
          f[p].has => SeriesFits(f, f[p].val) /\ AllIn01(f[p].val)
    /\ \A p \in ListPolicies \ RatioPolicies :
          f[p].has => SeriesFits(f, f[p].val) /\ AllNonNeg(f[p].val)
    /\ f.region_ret_ratio.has =>
          \A r \in 1..Len(f.region_ret_ratio.val) :
             /\ SeriesFits(f, f.region_ret_ratio.val[r])
             /\ AllIn01(f.region_ret_ratio.val[r])

\* C7: a configuration that fails any validation never leaves the
\* constructor: no object exists, and no template, instance, solve or
\* artifact of it ever does.
C7_InvalidNeverSolved ==
    ~ValidConfig(cfgfile) =>
       /\ pc \in {"new", "ctor_failed"}
       /\ pc = "ctor_failed" => raised.step # "none"
       /\ obj = NoObj
       /\ log = <<>>
       /\ store = EmptyStore
       /\ inst = NoInst

C7_Witness ==
    /\ pc = "ctor_failed"
    /\ raised.step = "OSError"
    /\ cfgfile.Template
    /\ cfgfile.custom_costs = "file"
    /\ cfgfile.exogenous_capacity = "missing"

Count(s, v) == Cardinality({i \in 1..Len(s) : s[i] = v})

\* C8: a constructed object holds the supplied Years sorted ascending, with
\* its duplicates, every element in [2018, 2050]; a list with an element
\* outside that range is never constructed.
C8_YearsSortedInRange ==
    /\ obj # NoObj =>
          /\ \A i \in 1..(Len(obj.Years) - 1) : obj.Years[i] <= obj.Years[i + 1]
          /\ Len(obj.Years) = Len(cfgfile.Years)
          /\ \A v \in YearVals : Count(obj.Years, v) = Count(cfgfile.Years, v)
          /\ \A i \in 1..Len(obj.Years) : InRange(obj.Years[i])
    /\ (\E i \in 1..Len(cfgfile.Years) : ~InRange(cfgfile.Years[i])) =>
          /\ pc \in {"new", "ctor_failed"}
          /\ obj = NoObj

C8_Witness ==
    /\ pc = "constructed"
    /\ cfgfile.Years = <<MaxYear, MinYear>>
    /\ obj.Years = <<MinYear, MaxYear>>

\* some optional policy series of the file is not as long as Years
LengthMismatch(f) ==
    \/ \E p \in ListPolicies : f[p].has /\ Len(f[p].val) # Len(f.Years)
    \/ /\ f.region_ret_ratio.has
       /\ \E r \in 1..Len(f.region_ret_ratio.val) :
             Len(f.region_ret_ratio.val[r]) # Len(f.Years)

\* C9: a present policy series whose length differs from len(Years) makes
\* construction fail with an exception, whichever series it is.
C9_LengthMismatchFails ==
    LengthMismatch(cfgfile) =>
       /\ pc \in {"new", "ctor_failed"}
       /\ obj = NoObj
       /\ pc = "ctor_failed" => raised.step \in {"ValueError", "Exception"}

C9_Witness ==
    /\ pc = "ctor_failed"
    /\ raised.step = "ValueError"
    /\ cfgfile.Years = <<MaxYear, MinYear>>
    /\ cfgfile.region_ret_ratio = Present(<<(<<0, 0>>), (<<1>>)>>)

\* some value of the file is outside the range of its policy
OutOfRange(f) ==
    \/ f.discountrate < 0 \/ f.discountrate > 1
    \/ \E p \in RatioPolicies : f[p].has /\ ~AllIn01(f[p].val)
    \/ \E p \in ListPolicies \ RatioPolicies : f[p].has /\ ~AllNonNeg(f[p].val)
    \/ /\ f.region_ret_ratio.has
       /\ \E r \in 1..Len(f.region_ret_ratio.val) : ~AllIn01(f.region_ret_ratio.val[r])

C11_PolicyByPosition ==
    pc = "create_model" =>
       LET t == store[<<"Sim", y>>] IN
       /\ \A p \in ListPolicies : obj[p].has => t[p] = <<obj[p].val[pos]>>
       /\ obj.region_ret_ratio.has =>
             /\ Len(t.region_ret_ratio) = Len(obj.region_ret_ratio.val)
             /\ \A r \in 1..Len(obj.region_ret_ratio.val) :
                   t.region_ret_ratio[r] = obj.region_ret_ratio.val[r][pos]

C13_FinalReportKeys ==
    pc = "done" =>
       LET rep == store[FinalKey] IN
       /\ rep.kind = "final"
       /\ DOMAIN rep.years = Range(obj.Years)
       /\ \A yr \in Range(obj.Years) :
             /\ rep.years[yr] = store[<<"json", yr>>]
             /\ rep.years[yr].kind = "result"
             /\ rep.years[yr].year = yr
             /\ obj.Years[rep.years[yr].pos] = yr
             /\ Happened("result", rep.years[yr].pos)
       /\ rep.meta.Years = obj.Years
       /\ rep.meta.Years = sorted(cfgfile.Years)

C13_Witness ==
    /\ pc = "done"
    /\ cfgfile.Years = <<MaxYear, MinYear>>
    /\ DOMAIN store[FinalKey].years = {MinYear, MaxYear}
    /\ store[FinalKey].meta.Years = <<MinYear, MaxYear>>

\* C14: when the YearResult file of some year of Years is missing,
\* mergejsonyears() ends with an exception and no final report is written,
\* not even one with the years that are present.
C14_AllOrNothing ==
    (/\ obj # NoObj
     /\ \E i \in 1..Len(obj.Years) : store[<<"json", obj.Years[i]>>] = NoFile) =>
       /\ store[FinalKey] = NoFile
       /\ pc \in {"constructed", "merge", "aborted"}
       /\ pc = "aborted" => raised.step = "mergejsonyears"
       /\ ~Happened("merge", pos)

C14_Witness ==
    /\ pc = "aborted"
    /\ raised.step = "mergejsonyears"
    /\ obj.Years = <<MinYear, MaxYear>>
    /\ store[<<"json", MinYear>>] # NoFile
    /\ store[<<"json", MaxYear>>] = NoFile
    /\ store[FinalKey] = NoFile

\* C15: a run of solve() writes the final report at most once, and exactly
\* once when it completes; the write comes after the YearResult of every
\* position of Years was persisted; the name of the file is the configuration
\* path up to its first dot followed by ".json", whatever the years.
C15_FinalReportOnce ==
    /\ Cardinality({j \in 1..Len(log) : log[j].step = "merge"}) <= 1
    /\ \A j \in 1..Len(log) :
          log[j].step = "merge" =>
             \A k \in 1..Len(obj.Years) : HappenedBefore("result", k, j)
    /\ store[FinalKey] # NoFile =>
          /\ Cardinality({j \in 1..Len(log) : log[j].step = "merge"}) = 1
          /\ store[FinalKey].name = split_head(cfgfile.path) \o <<".", "j", "s", "o", "n">>
    /\ pc = "done" => store[FinalKey] # NoFile

C15_Witness ==
    /\ pc = "done"
    /\ Len(obj.Years) = 2
    /\ cfgfile.path = <<"a", ".", "v", ".", "c", "f", "g">>
    /\ store[FinalKey].name = <<"a", ".", "j", "s", "o", "n">>

\* the steps of solve() that write a file of the working directory, with the
\* kind of file they write under the year's name
Writes == [template |-> "Sim", carry_forward |-> "gen_cap_op", result |-> "json"]

\* C16: in one run of solve() no file of the working directory (the template,
\* the carried-forward capacity or the result of a year) is written twice,
\* duplicate years included.
C16_KeyWrittenOnce ==
    \A i, j \in 1..Len(log) :
       (/\ i < j
        /\ log[i].step \in DOMAIN Writes
        /\ log[i].step = log[j].step) =>
          <<Writes[log[i].step], obj.Years[log[i].pos]>> #
             <<Writes[log[j].step], obj.Years[log[j].pos]>>

\* the steps solve() takes for the year at position k, in order
YearSteps(k) ==
    <<"template", "create_model", "create_instance">>
       \o (IF obj.cluster THEN <<"run_cluster", "setinstancecapacity">> ELSE <<>>)
       \o <<"solve">>
       \o (IF obj.Years[k] # obj.Years[Len(obj.Years)]
           THEN <<"carry_forward">> ELSE <<>>)
       \o <<"result">>

\* the steps the log holds for position k, in the order they were taken
StepsAt(k) ==
    LET at == SelectSeq(log, LAMBDA e : e.pos = k /\ e.step # "merge")
    IN [i \in 1..Len(at) |-> at[i].step]

IsPrefix(s, t) == Len(s) <= Len(t) /\ s = SubSeq(t, 1, Len(s))

\* C17: the steps of every year are taken once each, in the order template,
\* model and instance, cluster pre-solve and capacity write (with clustering
\* only), full solve, carried-forward capacity (years that differ from the
\* last), result.  With clustering the four capacity variables are fixed
\* when the full solve is invoked; without it the decomposer is never
\* invoked and no variable is ever fixed.
C17_StepsInOrder ==
    obj # NoObj =>
       /\ \A k \in 1..Len(obj.Years) :
             /\ IsPrefix(StepsAt(k), YearSteps(k))
             /\ (k < pos \/ (k = pos /\ pc \in {"end_year", "merge", "done"})) =>
                   StepsAt(k) = YearSteps(k)
       /\ (obj.cluster /\ (pc = "solve" \/ Happened("solve", pos)) /\ inst # NoInst) =>
             inst.fixed = {"gen_cap_new", "stor_cap_new", "hyb_cap_new", "gen_cap_ret"}
       /\ ~obj.cluster =>
             /\ ccap = NoCap
             /\ \A k \in 1..Len(obj.Years) :
                   ~Happened("run_cluster", k) /\ ~Happened("setinstancecapacity", k)
             /\ inst # NoInst => inst.fixed = {}

C17_Witness ==
    /\ pc = "done"
    /\ obj.cluster
    /\ obj.Years = <<MinYear, MaxYear>>
    /\ StepsAt(1) = <<"template", "create_model", "create_instance", "run_cluster",
                      "setinstancecapacity", "solve", "carry_forward", "result">>
    /\ StepsAt(2) = <<"template", "create_model", "create_instance", "run_cluster",
                      "setinstancecapacity", "solve", "result">>

Matching == {r \in cfgfile.capacity : r.known /\ r.name \in ExoKeywords}

\* C19: the exogenous capacity block of the template generated at position k
\* holds exactly the matching rows of the table whose year is after the
\* previous year and not after Years[k]; the previous year of the first
\* position is the one its template substitutes for the previous-year token.
\* Hence a completed run emits every matching row with a year after that
\* year and up to the last year in the template of exactly one year.
C19_ExogenousWindow ==
    /\ (pc = "create_model" /\ obj.exogenous_capacity = "file") =>
          LET t == store[<<"Sim", y>>]
              prev == IF pos = 1 THEN t.prevyear ELSE obj.Years[pos - 1]
          IN \A key \in ExoKeywords :
                t.exogenous_capacity[key] =
                   {r \in Matching : r.name = key /\ r.year > prev /\ r.year <= y}
    /\ (pc = "done" /\ obj.exogenous_capacity = "file") =>
          \A r \in Matching :
             (r.year > PreHorizonYear /\ r.year <= obj.Years[Len(obj.Years)]) =>
                Cardinality({yr \in Range(obj.Years) :
                               r \in store[<<"Sim", yr>>].exogenous_capacity[r.name]}) = 1

\* the positions of the instances solve() holds a reference to, through inst
\* or through the clustering objects
Held ==
    (IF inst # NoInst THEN {inst.pos} ELSE {})
       \cup (IF ccap # NoCap THEN ccap.refs ELSE {})

OptionalPolicies == {"nem_ret_ratio", "nem_ret_gwh", "region_ret_ratio",
                     "emitlimit", "nem_disp_ratio", "nem_re_disp_ratio"}

\* C21: for every year and every optional policy, the model of the year is
\* built with the policy's toggle enabled exactly when the template the
\* instance is created from holds the policy's parameter; a policy present
\* in the configuration without any element is no exception.
C21_ToggleMatchesTemplate ==
    inst # NoInst =>
       \A p \in OptionalPolicies :
          inst.options[p] <=> (inst.template[p] # <<>>)

\* a file that a run of an earlier object wrote
IsLeftover(f) == "pos" \in DOMAIN f /\ f.pos = 0

\* C22: the directory of a second object constructed without a tmpdir holds
\* no template, carried-forward capacity or result that the run of the first
\* object wrote, so the second object can neither overwrite one nor merge
\* one into its report.
C22_DistinctStores ==
    Happened("second", 0) =>
       /\ \A k \in Keys \ {FinalKey} : ~IsLeftover(store[k])
       /\ Happened("merge", pos) =>
             \A yr \in DOMAIN store[FinalKey].years :
                ~IsLeftover(store[FinalKey].years[yr])

====
